---- MODULE Spec2Model ----
(***************************************************************************)
(* A state-machine model of the YT-LIVE statistics overlay streamer.       *)
(*                                                                         *)
(* The repository holds the same LiveCounter class in three scripts.  Two  *)
(* of them (src/unnamed/part_000 and part_001) stream raw frames into the  *)
(* encoder's standard input ("push" cadence) and differ from one another   *)
(* only in what they log; src/index.js rewrites a PNG file on a timer      *)
(* ("poll" cadence).  The variable `variant` says which script runs.       *)
(*                                                                         *)
(* Numbers.  anim.current is a JavaScript double.  It is kept here in      *)
(* fixed point, Scale units to 1, and the product diff * 0.15 is rounded   *)
(* to the nearest unit, as the double product is rounded to the nearest    *)
(* representable value.  Targets are integers (the result of parseInt).    *)
(***************************************************************************)
EXTENDS Integers, Sequences, FiniteSets, TLC

\* ------------------------------------------------------------------ bounds
Scale == 100
MaxChannelFetches == 2
MaxAnimChannelFetches == 1
MaxStreamFetches == 1
MaxFrame == 1
MaxQueue == 2
MaxDeltaTime == 33

\* ------------------------------------------------------- program constants
SmoothNum == 15
SmoothDen == 100
Width == 1920
Height == 1080
BytesPerPixel == 4
HighWaterMark == 16384
Fps == 30
ToleranceMs == 2

Keys == {"subscribers", "totalViews", "videos", "liveViewers", "likes"}
ChannelKeys == {"subscribers", "totalViews", "videos"}
StreamKeys == {"liveViewers", "likes"}

\* -------------------------------------------------------------- JS values
\* A raw JSON value handed to updateAnimatedValue: undefined (an absent key),
\* a number, or a string (a tuple of one-character strings).
Undef == [t |-> "undef", n |-> 0, s |-> <<>>]
Num(n) == [t |-> "num", n |-> n, s |-> <<>>]
Str(s) == [t |-> "str", n |-> 0, s |-> s]

DigitChars == <<"0", "1", "2", "3", "4", "5", "6", "7", "8", "9">>
IsDigit(c) == \E i \in 1..10 : DigitChars[i] = c
DigitVal(c) == (CHOOSE i \in 1..10 : DigitChars[i] = c) - 1
IsSpace(c) == c = " "

RECURSIVE NatToStr(_)
NatToStr(n) == IF n < 10 THEN <<DigitChars[n + 1]>>
               ELSE NatToStr(n \div 10) \o <<DigitChars[(n % 10) + 1]>>

\* ToString of a JS value, the first step of parseInt.
ToStr(raw) ==
  CASE raw.t = "undef" -> <<"u", "n", "d", "e", "f", "i", "n", "e", "d">>
    [] raw.t = "num" -> IF raw.n < 0 THEN <<"-">> \o NatToStr(-raw.n) ELSE NatToStr(raw.n)
    [] OTHER -> raw.s

RECURSIVE SkipSpace(_)
SkipSpace(s) == IF s # <<>> /\ IsSpace(Head(s)) THEN SkipSpace(Tail(s)) ELSE s

RECURSIVE DigitPrefix(_)
DigitPrefix(s) == IF s # <<>> /\ IsDigit(Head(s)) THEN <<Head(s)>> \o DigitPrefix(Tail(s)) ELSE <<>>

RECURSIVE DigitsValue(_, _)
DigitsValue(s, acc) == IF s = <<>> THEN acc ELSE DigitsValue(Tail(s), (10 * acc) + DigitVal(Head(s)))

\* parseInt(x) in radix 10: leading blanks, an optional sign, the longest run
\* of digits; NaN when there is no digit.
ParseInt(raw) ==
  LET s0 == SkipSpace(ToStr(raw))
      neg == s0 # <<>> /\ Head(s0) = "-"
      s1 == IF s0 # <<>> /\ Head(s0) \in {"-", "+"} THEN Tail(s0) ELSE s0
      ds == DigitPrefix(s1)
  IN IF ds = <<>> THEN [nan |-> TRUE, v |-> 0]
     ELSE [nan |-> FALSE, v |-> IF neg THEN -DigitsValue(ds, 0) ELSE DigitsValue(ds, 0)]

\* Math.max(0, x || 0): a clamp the scripts do not have.
OrZeroClamped(p) == IF p.nan \/ p.v < 0 THEN 0 ELSE p.v

\* x || 0 on the result of parseInt: NaN and 0 are falsy.
OrZero(p) == IF p.nan \/ p.v = 0 THEN 0 ELSE p.v

\* c.count || 0 on a raw value: undefined, 0 and "" are falsy.
RawOrZero(raw) ==
  IF raw.t = "undef" \/ (raw.t = "num" /\ raw.n = 0) \/ (raw.t = "str" /\ raw.s = <<>>)
  THEN Num(0) ELSE raw

\* -------------------------------------------------------- value animator
Abs(x) == IF x < 0 THEN -x ELSE x
Min(a, b) == IF a < b THEN a ELSE b

\* n / d rounded to the nearest integer.
RoundDiv(n, d) == ((2 * n) + d) \div (2 * d)

\* A step of 115% of the gap.
StepOfOvershoot(diff) == RoundDiv(diff * (SmoothDen + SmoothNum), SmoothDen)

\* diff * 0.15, in units.
StepOf(diff) == RoundDiv(diff * SmoothNum, SmoothDen)

\* Math.floor(current).
MathFloor(cur) == cur \div Scale

\* Math.round(current): the nearest integer, halves upwards.
MathRound(cur) == RoundDiv(cur, Scale)

\* One counter's step in interpolateValues of the push scripts: move by 15% of
\* the gap while the gap exceeds 1, else take the target.
InterpolatePush(anim) ==
  LET diff == (anim.target * Scale) - anim.current
  IN IF Abs(diff) > Scale
     THEN [anim EXCEPT !.current = anim.current + StepOf(diff)]
     ELSE [anim EXCEPT !.current = anim.target * Scale]

\* The same step in src/index.js: always move by 15% of the gap.
InterpolatePoll(anim) ==
  LET diff == (anim.target * Scale) - anim.current
  IN [anim EXCEPT !.current = anim.current + StepOf(diff)]

Interpolate(v, anim) == IF v = "push" THEN InterpolatePush(anim) ELSE InterpolatePoll(anim)

\* updateAnimatedValue(key, targetValue) on the table of animated values.
UpdateAnimatedValue(av, key, raw) ==
  LET entry == IF key \in DOMAIN av THEN av[key] ELSE [current |-> 0, target |-> 0]
  IN [k \in (DOMAIN av) \cup {key} |->
        IF k = key THEN [entry EXCEPT !.target = OrZero(ParseInt(raw))] ELSE av[k]]

\* interpolateValues(): every tracked counter steps; data[key] is the rounding.
InterpolatedValues(v, av) == [k \in DOMAIN av |-> Interpolate(v, av[k])]
InterpolatedData(v, av, d) ==
  [f \in DOMAIN d |-> IF f \in DOMAIN av THEN MathRound(Interpolate(v, av[f]).current) ELSE d[f]]


\* ---------------------------------------------------------- formatNumber
\* The argument of formatNumber is a non-negative integer, held as its decimal
\* digits (this.data[key] is a Math.round result; some exceed 2^31).
Thousands == 3
Millions == 6
Billions == 9

\* The rung of the ladder num falls on: the power of ten it is divided by and
\* the suffix, or no division below 1000.
FormatRung(ds) ==
  IF Len(ds) > Billions THEN [k |-> Billions, suffix |-> "B"]
  ELSE IF Len(ds) > Millions THEN [k |-> Millions, suffix |-> "M"]
  ELSE IF Len(ds) > Thousands THEN [k |-> Thousands, suffix |-> "K"]
  ELSE [k |-> 0, suffix |-> ""]

\* (num / 10^k).toFixed(1): the tenth nearest to the quotient.  The quotient
\* is a double.  When the digits cut off are more or less than half a tenth
\* the double lies on the same side as the exact quotient.  When they are
\* exactly half a tenth, a quotient ending in .25 or .75 is a double and
\* toFixed takes the larger tenth; any other is not a double, and the side the
\* nearest double lies on (tieUp) depends on the number.
ToFixed1(ds, k, tieUp) ==
  LET len == Len(ds)
      whole == DigitsValue(SubSeq(ds, 1, len - k), 0)
      tenth == DigitVal(ds[len - k + 1])
      rest == SubSeq(ds, len - k + 2, len)
      restZero == \A i \in 2..Len(rest) : rest[i] = "0"
      above == DigitVal(rest[1]) > 5 \/ (DigitVal(rest[1]) = 5 /\ ~restZero)
      half == DigitVal(rest[1]) = 5 /\ restZero
      up == above \/ (half /\ (tenth \in {2, 7} \/ tieUp))
      t == (whole * 10) + tenth + (IF up THEN 1 ELSE 0)
  IN NatToStr(t \div 10) \o <<".">> \o NatToStr(t % 10)

\* formatNumber(num); below 1000 toLocaleString() groups nothing.
FormatNumber(ds, tieUp) ==
  LET rung == FormatRung(ds)
  IN IF rung.k = 0 THEN ds ELSE ToFixed1(ds, rung.k, tieUp) \o <<rung.suffix>>


\* ------------------------------------------------------------------ state
VARIABLES
  variant,         \* "push" (part_000, part_001) or "poll" (index.js)
  process,         \* "up", or "exited" after process.exit
  isRunning,       \* this.isRunning
  initPc,          \* init(): "await" (in await fetchData()), "done", "failed" (catch)
  data,            \* this.data
  animatedValues,  \* this.animatedValues: key -> {current, target}
  frame,           \* frames rendered (this.frame in the push scripts), saturating
  chanHttp,        \* a fetchChannelData call is awaiting httpGet
  streamHttp,      \* a fetchStreamData call is awaiting httpGet
  avatarPending,   \* the loadImage calls awaited by fetchChannelData calls
  avatarLoads,     \* loadImage calls made so far
  chanTimer,       \* the 60 s interval is armed
  streamTimer,     \* the 10 s interval is armed
  chanFetches,     \* channel refreshes the 60 s interval has started
  streamFetches,   \* stream refreshes the 10 s interval has started
  renderLoop,      \* the setImmediate chain (push) or render interval (poll) is armed
  ffmpeg,          \* this.ffmpegProcess and the subprocess behind it
  stdin,           \* this.ffmpegProcess.stdin
  stage1Timer,     \* stop()'s 1000 ms timer is pending
  stage2Timer,     \* stop()'s nested 3000 ms timer is pending
  exitTimer,       \* the signal handler's 5000 ms process.exit timer is pending
  signalled,       \* a SIGINT/SIGTERM has been received
  lastRefresh,     \* how the latest channel and stream refresh ended: "none", "ok", "failed"
  deltaTime,       \* Date.now() - lastTime of startAnimation, in ms, saturating
  formatCall       \* a call of formatNumber: its argument and, once done, its result

vars == <<variant, process, isRunning, initPc, data, animatedValues, frame, chanHttp,
          streamHttp, avatarPending, avatarLoads, chanTimer, streamTimer, chanFetches,
          streamFetches, renderLoop, ffmpeg, stdin, stage1Timer, stage2Timer, exitTimer,
          signalled, lastRefresh, deltaTime, formatCall>>

fetchVars == <<chanHttp, streamHttp, avatarPending, avatarLoads, chanFetches, streamFetches,
               lastRefresh>>
timerVars == <<chanTimer, streamTimer, renderLoop>>
stopVars == <<stage1Timer, stage2Timer, exitTimer, signalled>>
encVars == <<ffmpeg, stdin>>

\* ------------------------------------------------- what the network answers
\* The outcome of one httpGet of the channel document, as fetchChannelData
\* sees it: the 3000 ms timer rejects, the request errors, or a body arrives.
ChannelDoc(json, hasUser, hasCounts, name, pfp, subs, views, videos) ==
  [kind |-> "body", json |-> json, hasUser |-> hasUser, hasCounts |-> hasCounts,
   name |-> name, pfp |-> pfp, subscribers |-> subs, views |-> views, videos |-> videos]

ChannelReject(kind) ==
  [kind |-> kind, json |-> FALSE, hasUser |-> FALSE, hasCounts |-> FALSE,
   name |-> "", pfp |-> FALSE, subscribers |-> Undef, views |-> Undef, videos |-> Undef]

ChannelOutcomes ==
  { ChannelReject("timeout"), ChannelReject("error"),
    ChannelDoc(FALSE, FALSE, FALSE, "", FALSE, Undef, Undef, Undef),
    ChannelDoc(TRUE, FALSE, TRUE, "", FALSE, Num(3), Num(2), Num(1)),
    ChannelDoc(TRUE, TRUE, FALSE, "Test", TRUE, Undef, Undef, Undef),
    ChannelDoc(TRUE, TRUE, TRUE, "Test", TRUE, Num(3), Str(<<"2">>), Undef),
    ChannelDoc(TRUE, TRUE, TRUE, "", FALSE, Num(-2), Str(<<"-", "2">>), Str(<<"a", "b", "c">>)) }

StreamDoc(json, hasCounts, viewers, likes) ==
  [kind |-> "body", json |-> json, hasCounts |-> hasCounts, viewers |-> viewers, likes |-> likes]

StreamReject(kind) ==
  [kind |-> kind, json |-> FALSE, hasCounts |-> FALSE, viewers |-> Undef, likes |-> Undef]

StreamOutcomes ==
  { StreamReject("timeout"), StreamReject("error"),
    StreamDoc(FALSE, FALSE, Undef, Undef),
    StreamDoc(TRUE, FALSE, Undef, Undef),
    StreamDoc(TRUE, TRUE, Num(3), Str(<<"2">>)),
    StreamDoc(TRUE, TRUE, Num(0), Undef) }

\* A try block that takes a body without the user or counts array as an empty
\* document instead of throwing.
ChannelThrowsLax(o) == o.kind # "body" \/ ~o.json

\* The try block of fetchChannelData throws before its first assignment:
\* httpGet rejects, JSON.parse throws, parsedData.user.map or
\* parsedData.counts.map is called on undefined.
ChannelThrows(o) == o.kind # "body" \/ ~o.json \/ ~o.hasUser \/ ~o.hasCounts

\* The try block of fetchStreamData throws.
StreamThrows(o) == o.kind # "body" \/ ~o.json \/ ~o.hasCounts

\* user.name || 'Unknown Channel' ('Unknown' in index.js).
NameOrDefault(v, name) ==
  IF name # "" THEN name ELSE IF v = "push" THEN "Unknown Channel" ELSE "Unknown"

\* The three updateAnimatedValue calls of fetchChannelData.
ChannelTargets(av, o) ==
  UpdateAnimatedValue(
    UpdateAnimatedValue(
      UpdateAnimatedValue(av, "subscribers", o.subscribers),
      "totalViews", o.views),
    "videos", o.videos)

\* The two updateAnimatedValue calls of fetchStreamData's try block; the
\* counts were mapped through c.count || 0.
StreamTargets(av, o) ==
  UpdateAnimatedValue(
    UpdateAnimatedValue(av, "liveViewers", RawOrZero(o.viewers)),
    "likes", RawOrZero(o.likes))

\* A catch block that only logs, as fetchChannelData's does.
StreamResetKeeps(av) == av

\* The catch block of fetchStreamData.
StreamReset(av) ==
  UpdateAnimatedValue(UpdateAnimatedValue(av, "liveViewers", Num(0)), "likes", Num(0))

\* ------------------------------------------------------------------- Init
\* The state when the constructor returns: init() has run up to
\* await this.fetchData(), so both first requests are in flight.
NoProcess ==
  [state |-> "none", killed |-> FALSE, sigterm |-> FALSE, sigkill |-> FALSE, frameAtSpawn |-> 0]
NoStdin == [ended |-> FALSE, destroyed |-> FALSE, queue |-> <<>>]

NoFormatCall == [num |-> <<>>, text |-> <<>>, done |-> FALSE]

\* The state when the constructor returns, but for formatCall.
Constructed ==
  /\ variant \in {"push", "poll"}
  /\ process = "up"
  /\ isRunning = TRUE
  /\ initPc = "await"
  /\ data = [channelName |-> "Loading...", channelAvatar |-> 0, subscribers |-> 0,
             totalViews |-> 0, videos |-> 0, liveViewers |-> 0, likes |-> 0]
  /\ animatedValues = << >>
  /\ frame = 0
  /\ chanHttp = TRUE
  /\ streamHttp = TRUE
  /\ avatarPending = {}
  /\ avatarLoads = 0
  /\ chanTimer = FALSE
  /\ streamTimer = FALSE
  /\ chanFetches = 0
  /\ streamFetches = 0
  /\ renderLoop = FALSE
  /\ ffmpeg = NoProcess
  /\ stdin = NoStdin
  /\ stage1Timer = FALSE
  /\ stage2Timer = FALSE
  /\ exitTimer = FALSE
  /\ signalled = FALSE
  /\ lastRefresh = [channel |-> "none", stream |-> "none"]
  /\ deltaTime = 0

Init == Constructed /\ formatCall = NoFormatCall

\* -------------------------------------------------------- metrics fetcher
\* The continuation of fetchChannelData after await httpGet.
ChannelHttpDone(o) ==
  /\ process = "up"
  /\ chanHttp
  /\ chanHttp' = FALSE
  /\ IF ChannelThrows(o)
     THEN /\ lastRefresh' = [lastRefresh EXCEPT !.channel = "failed"]
          /\ UNCHANGED <<data, animatedValues, avatarPending, avatarLoads>>
     ELSE /\ lastRefresh' = [lastRefresh EXCEPT !.channel = "ok"]
          /\ data' = [data EXCEPT !.channelName = NameOrDefault(variant, o.name)]
          /\ animatedValues' = ChannelTargets(animatedValues, o)
          /\ IF o.pfp /\ data.channelAvatar = 0
             THEN /\ avatarLoads' = avatarLoads + 1
                  /\ avatarPending' = avatarPending \cup {avatarLoads + 1}
             ELSE UNCHANGED <<avatarPending, avatarLoads>>
  /\ UNCHANGED <<formatCall, deltaTime, variant, process, isRunning, initPc, frame, streamHttp, chanFetches,
                 streamFetches, timerVars, encVars, stopVars>>

\* The continuation of fetchChannelData after await loadImage: the image is
\* stored, or the inner catch swallows the error.
AvatarDone(id, loaded) ==
  /\ process = "up"
  /\ id \in avatarPending
  /\ avatarPending' = avatarPending \ {id}
  /\ data' = IF loaded THEN [data EXCEPT !.channelAvatar = id] ELSE data
  /\ UNCHANGED <<formatCall, deltaTime, variant, process, isRunning, initPc, animatedValues, frame, chanHttp,
                 streamHttp, avatarLoads, chanFetches, streamFetches, lastRefresh, timerVars,
                 encVars, stopVars>>

\* The continuation of fetchStreamData after await httpGet.
StreamHttpDone(o) ==
  /\ process = "up"
  /\ streamHttp
  /\ streamHttp' = FALSE
  /\ animatedValues' = IF StreamThrows(o) THEN StreamReset(animatedValues)
                       ELSE StreamTargets(animatedValues, o)
  /\ lastRefresh' = [lastRefresh EXCEPT !.stream = IF StreamThrows(o) THEN "failed" ELSE "ok"]
  /\ UNCHANGED <<formatCall, deltaTime, variant, process, isRunning, initPc, data, frame, chanHttp, avatarPending,
                 avatarLoads, chanFetches, streamFetches, timerVars, encVars, stopVars>>

\* The 60 s interval callback.  A callback that finds isRunning false does
\* nothing.  httpGet settles within 3 s, so the previous call has left httpGet.
ChannelTimerFire ==
  /\ process = "up"
  /\ chanTimer
  /\ isRunning
  /\ ~chanHttp
  /\ chanFetches < MaxChannelFetches
  /\ chanFetches' = chanFetches + 1
  /\ chanHttp' = TRUE
  /\ UNCHANGED <<formatCall, deltaTime, variant, process, isRunning, initPc, data, animatedValues, frame, streamHttp,
                 avatarPending, avatarLoads, streamFetches, lastRefresh, timerVars, encVars,
                 stopVars>>

\* The 10 s interval callback.
StreamTimerFire ==
  /\ process = "up"
  /\ streamTimer
  /\ isRunning
  /\ ~streamHttp
  /\ streamFetches < MaxStreamFetches
  /\ streamFetches' = streamFetches + 1
  /\ streamHttp' = TRUE
  /\ UNCHANGED <<formatCall, deltaTime, variant, process, isRunning, initPc, data, animatedValues, frame, chanHttp,
                 avatarPending, avatarLoads, chanFetches, lastRefresh, timerVars, encVars,
                 stopVars>>


\* -------------------------------------------------------- delivery driver
FrameBytes == Width * Height * BytesPerPixel

\* subprocess.kill(signal): a signal reaches a live subprocess and sets its
\* killed flag; on a subprocess that has exited nothing changes.  SIGKILL ends
\* the subprocess; SIGTERM is left to the subprocess to act on (EncoderExit).
Kill(ff, sig) ==
  IF ff.state # "running" THEN ff
  ELSE IF sig = "SIGKILL"
       THEN [ff EXCEPT !.killed = TRUE, !.sigkill = TRUE, !.state = "exited"]
       ELSE [ff EXCEPT !.killed = TRUE, !.sigterm = TRUE]

\* stdin.write(buffer): the frame is appended to the stream's buffer whatever
\* the answer; the answer is false when the buffered bytes reach the high
\* water mark, and the frame is marked with it.  The buffer is cut at MaxQueue.
WriteAnswer(queue) == (Len(queue) + 1) * FrameBytes < HighWaterMark
StdinWrite(sd) ==
  IF Len(sd.queue) >= MaxQueue THEN sd
  ELSE [sd EXCEPT !.queue = Append(sd.queue, [skipLogged |-> ~WriteAnswer(sd.queue)])]

\* A stop() that ends the input but leaves isRunning set.
StopPushKeepsRunning(ff, sd) ==
  /\ isRunning' = isRunning
  /\ chanTimer' = FALSE
  /\ streamTimer' = FALSE
  /\ ffmpeg' = ff
  /\ IF ff.state # "none" /\ ~sd.destroyed
     THEN /\ stdin' = [sd EXCEPT !.ended = TRUE]
          /\ stage1Timer' = TRUE
     ELSE /\ stdin' = sd
          /\ stage1Timer' = stage1Timer

\* stop() of the push scripts, on the subprocess ff and its stdin sd.
StopPush(ff, sd) ==
  /\ isRunning' = FALSE
  /\ chanTimer' = FALSE
  /\ streamTimer' = FALSE
  /\ ffmpeg' = ff
  /\ IF ff.state # "none" /\ ~sd.destroyed
     THEN /\ stdin' = [sd EXCEPT !.ended = TRUE]
          /\ stage1Timer' = TRUE
     ELSE /\ stdin' = sd
          /\ stage1Timer' = stage1Timer

\* stop() of index.js.
StopPoll(ff, sd) ==
  /\ isRunning' = FALSE
  /\ UNCHANGED <<chanTimer, streamTimer, stage1Timer>>
  /\ stdin' = sd
  /\ ffmpeg' = IF ff.state # "none" /\ ~ff.killed THEN Kill(ff, "SIGTERM") ELSE ff

Stop(ff, sd) == IF variant = "push" THEN StopPush(ff, sd) ELSE StopPoll(ff, sd)

\* spawn('ffmpeg', args): the subprocess runs from here on; frameAtSpawn keeps
\* how many frames had been rendered when it was started.
Spawned ==
  [state |-> "running", killed |-> FALSE, sigterm |-> FALSE, sigkill |-> FALSE,
   frameAtSpawn |-> frame]

\* init() after await this.fetchData(), which settles when both first
\* refreshes have returned.  thrown: what the rest of the try block throws
\* ("spawn": spawn() throws; "render": the first renderFrame() of index.js
\* throws), caught by init's catch, which calls stop().
InitContinue(thrown) ==
  /\ process = "up"
  /\ initPc = "await"
  /\ ~chanHttp /\ ~streamHttp /\ avatarPending = {}
  /\ thrown = "render" => variant = "poll"
  /\ CASE thrown = "spawn" ->
            /\ initPc' = "failed"
            /\ Stop(ffmpeg, stdin)
            /\ UNCHANGED <<data, animatedValues, frame, renderLoop, deltaTime>>
       [] thrown = "render" ->
            /\ initPc' = "failed"
            /\ animatedValues' = InterpolatedValues(variant, animatedValues)
            /\ data' = InterpolatedData(variant, animatedValues, data)
            /\ Stop(Spawned, NoStdin)
            /\ UNCHANGED <<frame, renderLoop, deltaTime>>
       [] OTHER ->
            /\ initPc' = "done"
            /\ ffmpeg' = Spawned
            /\ stdin' = NoStdin
            /\ chanTimer' = TRUE
            /\ streamTimer' = TRUE
            /\ IF variant = "push"
               THEN \* startAnimation: lastTime = Date.now(); the first
                    \* animate() finds deltaTime 0
                    /\ renderLoop' = isRunning
                    /\ deltaTime' = 0
                    /\ UNCHANGED <<data, animatedValues, frame>>
               ELSE \* startFrameUpdates: renderFrame() unguarded, then setInterval
                    /\ renderLoop' = TRUE
                    /\ UNCHANGED deltaTime
                    /\ animatedValues' = InterpolatedValues(variant, animatedValues)
                    /\ data' = InterpolatedData(variant, animatedValues, data)
                    /\ frame' = Min(frame + 1, MaxFrame)
            /\ UNCHANGED <<isRunning, stage1Timer>>
  /\ UNCHANGED <<formatCall, variant, process, fetchVars, stage2Timer, exitTimer, signalled>>

\* animate() finds isRunning false and returns without setImmediate.
AnimateStop ==
  /\ process = "up"
  /\ variant = "push"
  /\ renderLoop
  /\ ~isRunning
  /\ renderLoop' = FALSE
  /\ UNCHANGED <<formatCall, deltaTime, variant, process, isRunning, initPc, data, animatedValues, frame, fetchVars,
                 chanTimer, streamTimer, encVars, stopVars>>

\* Time passes by d ms while the setImmediate chain of startAnimation runs.
\* An animate() that finds the frame not yet due changes nothing.
ClockAdvance(d) ==
  /\ process = "up"
  /\ variant = "push"
  /\ renderLoop
  /\ deltaTime < MaxDeltaTime
  /\ deltaTime' = Min(deltaTime + d, MaxDeltaTime)
  /\ UNCHANGED <<formatCall, variant, process, isRunning, initPc, data, animatedValues, frame,
                 fetchVars, timerVars, encVars, stopVars>>

\* A loop that renders on every scheduling opportunity.
FrameDueAlways(dt) == TRUE

\* deltaTime >= targetInterval - 2 with targetInterval = 1000 / CONFIG.fps,
\* both sides multiplied by CONFIG.fps.
FrameDue(dt) == dt * Fps >= 1000 - (ToleranceMs * Fps)

\* animate() finds the frame due, calls render() and takes the time it read
\* as lastTime.  fault: what the try block around toBuffer/write throws
\* ("none", "EPIPE", "other").
Render(fault) ==
  /\ process = "up"
  /\ variant = "push"
  /\ renderLoop
  /\ isRunning
  /\ FrameDue(deltaTime)
  /\ deltaTime' = 0
  /\ animatedValues' = InterpolatedValues(variant, animatedValues)
  /\ data' = InterpolatedData(variant, animatedValues, data)
  /\ frame' = Min(frame + 1, MaxFrame)
  /\ IF ffmpeg.state # "none" /\ ~stdin.destroyed
     THEN CASE fault = "none" ->
                 /\ stdin' = StdinWrite(stdin)
                 /\ UNCHANGED <<isRunning, chanTimer, streamTimer, ffmpeg, stage1Timer>>
            [] fault = "EPIPE" ->
                 UNCHANGED <<isRunning, chanTimer, streamTimer, ffmpeg, stdin, stage1Timer>>
            [] OTHER -> Stop(ffmpeg, stdin)
     ELSE /\ fault = "none"
          /\ UNCHANGED <<isRunning, chanTimer, streamTimer, ffmpeg, stdin, stage1Timer>>
  /\ UNCHANGED <<formatCall, variant, process, initPc, fetchVars, renderLoop, stage2Timer, exitTimer,
                 signalled>>

\* The render interval of index.js fires and finds isRunning true.
RenderFrame ==
  /\ process = "up"
  /\ variant = "poll"
  /\ renderLoop
  /\ isRunning
  /\ animatedValues' = InterpolatedValues(variant, animatedValues)
  /\ data' = InterpolatedData(variant, animatedValues, data)
  /\ frame' = Min(frame + 1, MaxFrame)
  /\ UNCHANGED <<formatCall, deltaTime, variant, process, isRunning, initPc, fetchVars, timerVars, encVars, stopVars>>

\* A fault thrown in the render callback outside any try block (a drawing
\* call, or toBuffer and writeFileSync in index.js), after interpolateValues.
\* The push scripts have an 'uncaughtException' handler, which calls stop();
\* animate() did not reach setImmediate.  index.js has no handler: Node prints
\* the error and the process exits.
UncaughtException ==
  /\ process = "up"
  /\ renderLoop
  /\ isRunning
  /\ variant = "push" => FrameDue(deltaTime)
  /\ animatedValues' = InterpolatedValues(variant, animatedValues)
  /\ data' = InterpolatedData(variant, animatedValues, data)
  /\ IF variant = "push"
     THEN /\ Stop(ffmpeg, stdin)
          /\ renderLoop' = FALSE
          /\ UNCHANGED process
     ELSE /\ process' = "exited"
          /\ UNCHANGED <<isRunning, timerVars, encVars, stage1Timer>>
  /\ UNCHANGED <<formatCall, deltaTime, variant, initPc, frame, fetchVars, stage2Timer,
                 exitTimer, signalled>>

\* SIGINT or SIGTERM: stop(), then process.exit(0) after 5000 ms (push) or at
\* once (index.js).  One termination request per run.
Signal ==
  /\ process = "up"
  /\ ~signalled
  /\ signalled' = TRUE
  /\ Stop(ffmpeg, stdin)
  /\ IF variant = "push"
     THEN exitTimer' = TRUE /\ process' = process
     ELSE exitTimer' = exitTimer /\ process' = "exited"
  /\ UNCHANGED <<formatCall, deltaTime, variant, initPc, data, animatedValues, frame, fetchVars, renderLoop,
                 stage2Timer>>

\* stop()'s 1000 ms timer.
Stage1Fire ==
  /\ process = "up"
  /\ stage1Timer
  /\ stage1Timer' = FALSE
  /\ IF ffmpeg.state # "none" /\ ~ffmpeg.killed
     THEN /\ ffmpeg' = Kill(ffmpeg, "SIGTERM")
          /\ stage2Timer' = TRUE
     ELSE UNCHANGED <<ffmpeg, stage2Timer>>
  /\ UNCHANGED <<formatCall, deltaTime, variant, process, isRunning, initPc, data, animatedValues, frame, fetchVars,
                 timerVars, stdin, exitTimer, signalled>>

\* stop()'s nested 3000 ms timer.
Stage2Fire ==
  /\ process = "up"
  /\ stage2Timer
  /\ stage2Timer' = FALSE
  /\ ffmpeg' = IF ffmpeg.state # "none" /\ ~ffmpeg.killed THEN Kill(ffmpeg, "SIGKILL") ELSE ffmpeg
  /\ UNCHANGED <<formatCall, deltaTime, variant, process, isRunning, initPc, data, animatedValues, frame, fetchVars,
                 timerVars, stdin, stage1Timer, exitTimer, signalled>>

\* The signal handler's 5000 ms timer: process.exit(0).  The stop() of the
\* same handler set its timers at 1000 ms and, nested, 3000 ms more, so they
\* have fired.
ExitTimerFire ==
  /\ process = "up"
  /\ exitTimer
  /\ ~stage1Timer /\ ~stage2Timer
  /\ exitTimer' = FALSE
  /\ process' = "exited"
  /\ UNCHANGED <<formatCall, deltaTime, variant, isRunning, initPc, data, animatedValues, frame, fetchVars, timerVars,
                 encVars, stage1Timer, stage2Timer, signalled>>

\* ---------------------------------------------------------- the encoder
\* The subprocess exits: by itself, on end of input, or on SIGTERM.  The
\* 'close' handler only logs.  Nothing obliges the subprocess to exit.
EncoderExit ==
  /\ process = "up"
  /\ ffmpeg.state = "running"
  /\ ffmpeg' = [ffmpeg EXCEPT !.state = "exited"]
  /\ UNCHANGED <<formatCall, deltaTime, variant, process, isRunning, initPc, data, animatedValues, frame, fetchVars,
                 timerVars, stdin, stopVars>>

\* The encoder reads one frame from its standard input.
EncoderConsume ==
  /\ process = "up"
  /\ ffmpeg.state = "running"
  /\ stdin.queue # <<>>
  /\ stdin' = [stdin EXCEPT !.queue = Tail(stdin.queue)]
  /\ UNCHANGED <<formatCall, deltaTime, variant, process, isRunning, initPc, data, animatedValues, frame, fetchVars,
                 timerVars, ffmpeg, stopVars>>

\* The stdin stream is destroyed: after end() once its buffer is flushed, or
\* when the pipe breaks because the subprocess exited.  index.js never looks
\* at stdin.
StdinDestroy ==
  /\ process = "up"
  /\ variant = "push"
  /\ ffmpeg.state # "none"
  /\ ~stdin.destroyed
  /\ (stdin.ended /\ stdin.queue = <<>>) \/ ffmpeg.state = "exited"
  /\ stdin' = [stdin EXCEPT !.destroyed = TRUE, !.queue = <<>>]
  /\ UNCHANGED <<formatCall, deltaTime, variant, process, isRunning, initPc, data, animatedValues, frame, fetchVars,
                 timerVars, ffmpeg, stopVars>>

\* ------------------------------------------------------- formatNumber call
\* drawStats calls formatNumber on a counter's displayed value.
FormatNumberCall(tieUp) ==
  /\ ~formatCall.done
  /\ formatCall.num # <<>>
  /\ formatCall' = [formatCall EXCEPT !.text = FormatNumber(formatCall.num, tieUp), !.done = TRUE]
  /\ UNCHANGED <<deltaTime, variant, process, isRunning, initPc, data, animatedValues, frame,
                 fetchVars, timerVars, encVars, stopVars>>

\* ------------------------------------------------------------------ specs
\* The answers drawn in Spec, where every termination path is explored: one
\* rejection and one document per request.
DriverChannelOutcomes ==
  { ChannelReject("timeout"),
    ChannelDoc(TRUE, TRUE, TRUE, "Test", TRUE, Num(2), Undef, Undef) }

DriverStreamOutcomes ==
  { StreamReject("timeout"),
    StreamDoc(TRUE, TRUE, Num(2), Undef) }

Timers ==
  \/ ChannelTimerFire
  \/ StreamTimerFire

Next ==
  \/ \E o \in DriverChannelOutcomes : ChannelHttpDone(o)
  \/ \E id \in avatarPending, loaded \in BOOLEAN : AvatarDone(id, loaded)
  \/ \E o \in DriverStreamOutcomes : StreamHttpDone(o)
  \/ Timers
  \/ \E thrown \in {"none", "spawn", "render"} : InitContinue(thrown)
  \/ AnimateStop
  \/ ClockAdvance(MaxDeltaTime)
  \/ \E fault \in {"none", "EPIPE", "other"} : Render(fault)
  \/ RenderFrame
  \/ UncaughtException
  \/ Signal
  \/ Stage1Fire
  \/ Stage2Fire
  \/ ExitTimerFire
  \/ EncoderExit
  \/ EncoderConsume
  \/ StdinDestroy

Spec == Init /\ [][Next]_vars

\* The runs of Spec in which the refresh intervals never fire: initialisation,
\* the render loop and every way of stopping.
StopNext ==
  \/ \E o \in DriverChannelOutcomes : ChannelHttpDone(o)
  \/ \E id \in avatarPending, loaded \in BOOLEAN : AvatarDone(id, loaded)
  \/ \E o \in DriverStreamOutcomes : StreamHttpDone(o)
  \/ \E thrown \in {"none", "spawn", "render"} : InitContinue(thrown)
  \/ AnimateStop
  \/ ClockAdvance(MaxDeltaTime)
  \/ \E fault \in {"none", "EPIPE", "other"} : Render(fault)
  \/ RenderFrame
  \/ UncaughtException
  \/ Signal
  \/ Stage1Fire
  \/ Stage2Fire
  \/ ExitTimerFire
  \/ EncoderExit
  \/ EncoderConsume
  \/ StdinDestroy

StopSpec == Init /\ [][StopNext]_vars

\* The runs with no termination request and no fault, over every answer of
\* the network: the value animator and the metrics fetcher at work.  The
\* event loop runs what is due: the render loop whenever it is armed, the
\* continuation of init() once fetchData settles, and the
\* 3000 ms timer of httpGet, which rejects a request nothing else settled.
\* loadImage has no timer and nothing obliges it to settle.
AnimNext ==
  \/ \E o \in ChannelOutcomes : ChannelHttpDone(o)
  \/ \E id \in avatarPending, loaded \in BOOLEAN : AvatarDone(id, loaded)
  \/ \E o \in StreamOutcomes : StreamHttpDone(o)
  \/ chanFetches < MaxAnimChannelFetches /\ ChannelTimerFire
  \/ StreamTimerFire
  \/ InitContinue("none")
  \/ ClockAdvance(MaxDeltaTime)
  \/ Render("none")
  \/ RenderFrame
  \/ EncoderConsume

AnimSpec ==
  /\ Init /\ [][AnimNext]_vars
  /\ WF_vars(ClockAdvance(MaxDeltaTime))
  /\ WF_vars(Render("none"))
  /\ WF_vars(RenderFrame)
  /\ WF_vars(InitContinue("none"))
  /\ WF_vars(ChannelHttpDone(ChannelReject("timeout")))
  /\ WF_vars(StreamHttpDone(StreamReject("timeout")))


\* The runs of the stream refresh over every answer of its request, with the
\* channel refresh of init() only, under the same scheduling as AnimSpec.
StreamNext ==
  \/ \E o \in DriverChannelOutcomes : ChannelHttpDone(o)
  \/ \E id \in avatarPending, loaded \in BOOLEAN : AvatarDone(id, loaded)
  \/ \E o \in StreamOutcomes : StreamHttpDone(o)
  \/ StreamTimerFire
  \/ InitContinue("none")
  \/ ClockAdvance(MaxDeltaTime)
  \/ Render("none")
  \/ RenderFrame
  \/ EncoderConsume

StreamSpec ==
  /\ Init /\ [][StreamNext]_vars
  /\ WF_vars(ClockAdvance(MaxDeltaTime))
  /\ WF_vars(Render("none"))
  /\ WF_vars(RenderFrame)
  /\ WF_vars(InitContinue("none"))
  /\ WF_vars(ChannelHttpDone(ChannelReject("timeout")))
  /\ WF_vars(StreamHttpDone(StreamReject("timeout")))

\* Spec with the scheduling the event loop guarantees: a callback that is due
\* runs (timers, promise continuations, the render loop, the stream's own
\* teardown), and httpGet settles by its 3000 ms timer.  Nothing obliges a
\* signal to arrive, a fault to be thrown, loadImage to settle, or the encoder
\* to read its input or to exit.
FairSpec ==
  /\ Spec
  /\ WF_vars(ClockAdvance(MaxDeltaTime))
  /\ WF_vars(ChannelHttpDone(ChannelReject("timeout")))
  /\ WF_vars(StreamHttpDone(StreamReject("timeout")))
  /\ WF_vars(\E thrown \in {"none", "spawn", "render"} : InitContinue(thrown))
  /\ WF_vars(\E fault \in {"none", "EPIPE", "other"} : Render(fault))
  /\ WF_vars(RenderFrame)
  /\ WF_vars(AnimateStop)
  /\ WF_vars(Stage1Fire)
  /\ WF_vars(Stage2Fire)
  /\ WF_vars(ExitTimerFire)
  /\ WF_vars(StdinDestroy)


\* The end-to-end scenario of the specification: every channel request is
\* answered with the document {name "Test", pfp, subscribers 100, views 200,
\* videos 3} and every stream request times out; no signal, no fault.
ScenarioChannelOutcome == ChannelDoc(TRUE, TRUE, TRUE, "Test", TRUE, Num(100), Num(200), Num(3))
ScenarioStreamOutcome == StreamReject("timeout")

ScenarioNext ==
  \/ ChannelHttpDone(ScenarioChannelOutcome)
  \/ \E id \in avatarPending, loaded \in BOOLEAN : AvatarDone(id, loaded)
  \/ StreamHttpDone(ScenarioStreamOutcome)
  \/ Timers
  \/ InitContinue("none")
  \/ ClockAdvance(MaxDeltaTime)
  \/ Render("none")
  \/ RenderFrame
  \/ EncoderConsume

ScenarioSpec == Init /\ [][ScenarioNext]_vars


\* The runs of the render loop against the clock: time passes in steps of any
\* length, and a due frame is rendered with or without a fault.
ThrottleNext ==
  \/ \E o \in DriverChannelOutcomes : ChannelHttpDone(o)
  \/ \E id \in avatarPending, loaded \in BOOLEAN : AvatarDone(id, loaded)
  \/ \E o \in DriverStreamOutcomes : StreamHttpDone(o)
  \/ InitContinue("none")
  \/ \E d \in 1..MaxDeltaTime : ClockAdvance(d)
  \/ \E fault \in {"none", "EPIPE", "other"} : Render(fault)
  \/ AnimateStop
  \/ EncoderConsume

ThrottleSpec == Init /\ [][ThrottleNext]_vars


\* formatNumber on its own, over arguments around every rung of the ladder.
FormatNumbers ==
  (0..3) \cup (997..1003) \cup (1048..1052) \cup (1248..1252) \cup (1948..1952)
    \cup (1997..2001) \cup (999948..999952) \cup (999998..1000002)
    \cup (1499999..1500001) \cup (999949999..999950001) \cup (999999998..1000000001)

FormatInputs ==
  {NatToStr(n) : n \in FormatNumbers} \cup {<<"2", "3", "0", "0", "0", "0", "0", "0", "0", "0">>}

FormatInit ==
  /\ Constructed
  /\ \E ds \in FormatInputs : formatCall = [num |-> ds, text |-> <<>>, done |-> FALSE]

FormatNext == \E tieUp \in BOOLEAN : FormatNumberCall(tieUp)

FormatSpec == FormatInit /\ [][FormatNext]_vars

\* ================================================================ claims
Target(k) == animatedValues[k].target
Current(k) == animatedValues[k].current
Tracked(k) == k \in DOMAIN animatedValues

\* A stream refresh that fails as C1 names it.
StreamRefreshFailed(o) == o.kind \in {"timeout", "error"} \/ (o.kind = "body" /\ ~o.json)

LiveTargetsZero ==
  /\ Tracked("liveViewers") /\ Target("liveViewers") = 0
  /\ Tracked("likes") /\ Target("likes") = 0

LiveDisplayedZero == data.liveViewers = 0 /\ data.likes = 0

\* C1, first half: a failed stream refresh sets the targets of liveViewers and
\* likes to 0, whatever they were.
C1_FailureZeroesTargets ==
  [][\A o \in StreamOutcomes :
       (StreamHttpDone(o) /\ StreamRefreshFailed(o)) =>
          /\ "liveViewers" \in DOMAIN animatedValues' /\ animatedValues'["liveViewers"].target = 0
          /\ "likes" \in DOMAIN animatedValues' /\ animatedValues'["likes"].target = 0]_vars

\* C1, second half: after a failed stream refresh, unless a later stream
\* refresh succeeds, the render loop brings the displayed liveViewers and likes
\* to 0.
C1_DisplayedReachZero ==
  (lastRefresh.stream = "failed") ~> (LiveDisplayedZero \/ lastRefresh.stream = "ok")

\* C1: a failed stream refresh sets both live targets to 0 and, with no later
\* successful stream refresh, the displayed liveViewers and likes become 0
\* after finitely many ticks.
C1_StreamFailureZeroes == C1_FailureZeroesTargets /\ C1_DisplayedReachZero

\* C1's case: the stream refresh failed while both live counters were being
\* shown above zero.
C1_Witness ==
  /\ lastRefresh.stream = "failed"
  /\ LiveTargetsZero
  /\ Current("liveViewers") > 0 /\ Current("likes") > 0
  /\ data.liveViewers > 0 /\ data.likes > 0

\* A channel refresh that fails as C2 names it.
ChannelRefreshFailed(o) ==
  o.kind \in {"timeout", "error"} \/ (o.kind = "body" /\ (~o.json \/ ~o.hasUser \/ ~o.hasCounts))

\* C2: a channel refresh that fails leaves channelName, the cached avatar and
\* every counter's target (subscribers, totalViews, videos, liveViewers, likes)
\* as they were.
C2_ChannelFailureKeeps ==
  [][\A o \in ChannelOutcomes :
       (ChannelHttpDone(o) /\ ChannelRefreshFailed(o)) =>
          /\ data'.channelName = data.channelName
          /\ data'.channelAvatar = data.channelAvatar
          /\ DOMAIN animatedValues' = DOMAIN animatedValues
          /\ \A k \in DOMAIN animatedValues :
               animatedValues'[k].target = animatedValues[k].target]_vars

\* C2's case: a channel refresh failed after an earlier one had set the name,
\* the avatar and non-zero targets, and they are still there.
C2_Witness ==
  /\ lastRefresh.channel = "failed"
  /\ chanFetches > 0
  /\ data.channelName = "Test"
  /\ data.channelAvatar # 0
  /\ Tracked("subscribers") /\ Target("subscribers") = 3
  /\ Tracked("liveViewers") /\ Target("liveViewers") = 3


\* The targets the documents of ChannelOutcomes and StreamOutcomes can set.
TargetValues == (-2)..3

\* C3: for every counter, if from some point on its target is set no more
\* while the render loop keeps ticking, then from some point on its current
\* equals its target exactly.
C3_ConvergesExactly ==
  \A k \in Keys : \A v \in TargetValues :
    <>[](renderLoop /\ Tracked(k) /\ Target(k) = v) => <>[](Tracked(k) /\ Current(k) = v * Scale)


Faults == {"none", "EPIPE", "other"}

\* A step in which interpolateValues runs: tick().
TickStep ==
  \/ \E fault \in Faults : Render(fault)
  \/ RenderFrame
  \/ variant = "poll" /\ (InitContinue("none") \/ InitContinue("render"))

Max(a, b) == IF a > b THEN a ELSE b

\* C4: in every step, and so in every tick, each counter's new current lies
\* between its old current and its target at the time of the step, inclusive.
C4_NoOvershoot ==
  [][\A k \in DOMAIN animatedValues :
       /\ k \in DOMAIN animatedValues'
       /\ Min(Current(k), Target(k) * Scale) <= animatedValues'[k].current
       /\ animatedValues'[k].current <= Max(Current(k), Target(k) * Scale)]_vars

\* C4's case: ticks had moved subscribers part of the way up to 3 when a
\* refresh retargeted it to -2, below its current.
C4_Witness ==
  /\ Tracked("subscribers") /\ Target("subscribers") = -2
  /\ Current("subscribers") > 0 /\ Current("subscribers") < 3 * Scale
  /\ chanFetches > 0

\* C5: after every tick, for every tracked counter, current equals target or
\* the gap that remains is more than 1.
C5_SnapAfterStep ==
  [][TickStep =>
       \A k \in DOMAIN animatedValues' :
          \/ animatedValues'[k].current = animatedValues'[k].target * Scale
          \/ Abs((animatedValues'[k].target * Scale) - animatedValues'[k].current) > Scale]_vars

\* C6 as stated: every stored target is a non-negative integer.
C6_TargetNonNegative == \A k \in DOMAIN animatedValues : Target(k) >= 0

\* What parseInt(raw) || 0 is for the raw values the documents carry.
C6_RawCases ==
  { <<Num(3), 3>>, <<Num(2), 2>>, <<Num(1), 1>>, <<Num(0), 0>>, <<Num(-2), -2>>,
    <<Str(<<"2">>), 2>>, <<Str(<<"-", "2">>), -2>>, <<Str(<<"a", "b", "c">>), 0>>,
    <<Undef, 0>> }

\* updateAnimatedValue(k, raw) has acted between av and av2 on counter k.
C6_Stored(av, av2, k, raw) ==
  /\ k \in DOMAIN av2
  /\ \E c \in C6_RawCases : c[1] = raw /\ av2[k].target = c[2]
  /\ av2[k].current = IF k \in DOMAIN av THEN av[k].current ELSE 0

C6_OthersKept(av, av2, keys) ==
  \A k \in (DOMAIN av) \ keys : k \in DOMAIN av2 /\ av2[k] = av[k]

\* C6 amended: updateAnimatedValue stores parseInt(raw) || 0 as the target, a
\* negative integer for a negative number or negative numeric string and 0
\* for non-numeric or absent input, and leaves that counter's current and
\* every other counter as they were.
C6_StoresParseInt ==
  [][/\ \A o \in ChannelOutcomes :
          (ChannelHttpDone(o) /\ ~ChannelRefreshFailed(o)) =>
             /\ C6_Stored(animatedValues, animatedValues', "subscribers", o.subscribers)
             /\ C6_Stored(animatedValues, animatedValues', "totalViews", o.views)
             /\ C6_Stored(animatedValues, animatedValues', "videos", o.videos)
             /\ C6_OthersKept(animatedValues, animatedValues', ChannelKeys)
     /\ \A o \in StreamOutcomes :
          (StreamHttpDone(o) /\ o.kind = "body" /\ o.json /\ o.hasCounts) =>
             /\ C6_Stored(animatedValues, animatedValues', "liveViewers", o.viewers)
             /\ C6_Stored(animatedValues, animatedValues', "likes", o.likes)
             /\ C6_OthersKept(animatedValues, animatedValues', StreamKeys)]_vars

\* C6's case: a negative number and a negative numeric string were stored as
\* targets, a non-numeric string as 0, on counters that were above zero.
C6_Witness ==
  /\ lastRefresh.channel = "ok"
  /\ Tracked("subscribers") /\ Target("subscribers") = -2 /\ Current("subscribers") > 0
  /\ Tracked("totalViews") /\ Target("totalViews") = -2 /\ Current("totalViews") > 0
  /\ Tracked("videos") /\ Target("videos") = 0


\* C7: once the process has exited, no encoder that was sent the graceful
\* signal (end of input, SIGTERM) and ignored it is still alive: the
\* escalation has reached SIGKILL.
C7_NoOrphanAfterExit ==
  process = "exited" => ~(ffmpeg.state = "running" /\ (ffmpeg.sigterm \/ stdin.ended))

\* C8: once isRunning is false, no encoder subprocess is started, no frame is
\* rendered and no refresh is started.
C8_NothingStartsAfterStop ==
  [][~isRunning =>
       /\ ~(ffmpeg.state = "none" /\ ffmpeg'.state # "none")
       /\ ~TickStep
       /\ ~(chanHttp' /\ ~chanHttp)
       /\ ~(streamHttp' /\ ~streamHttp)]_vars

\* The frames that fit in the input channel before write() answers false.
C9_Bound == (HighWaterMark \div FrameBytes) + 1

\* C9: no frame whose write found the input channel saturated is pending in
\* the channel, and the frames pending stay within a fixed bound.
C9_SaturatedFrameDropped ==
  /\ \A i \in 1..Len(stdin.queue) : ~stdin.queue[i].skipLogged
  /\ Len(stdin.queue) <= C9_Bound

\* C10: the first frame is rendered whatever the network does.
C10_FirstFrameRendered == <>(frame > 0)

\* The refresh attempts of each kind that have not completed: a channel
\* refresh is awaiting httpGet or loadImage, a stream refresh httpGet.
ChannelInFlight == (IF chanHttp THEN 1 ELSE 0) + Cardinality(avatarPending)
StreamInFlight == IF streamHttp THEN 1 ELSE 0

\* C11: at most one attempt of each kind of refresh is in flight at any time,
\* so an interval never fires while the previous attempt is still awaiting.
C11_OneAttemptInFlight == ChannelInFlight <= 1 /\ StreamInFlight <= 1

\* C12: when the encoder has exited while isRunning is set, eventually the
\* driver stops (isRunning cleared, or the process exits) or an encoder is
\* running again.
C12_EncoderExitHandled ==
  (process = "up" /\ isRunning /\ ffmpeg.state = "exited")
    ~> (~isRunning \/ process = "exited" \/ ffmpeg.state = "running")

\* C13: once an avatar is cached, no avatar load is started and the cached
\* avatar is not replaced, so at most one load ever completes successfully.
C13_AvatarLoadedOnce ==
  [][data.channelAvatar # 0 =>
       /\ avatarLoads' = avatarLoads
       /\ data'.channelAvatar = data.channelAvatar]_vars

\* Ticking has taken the counters as far as it takes them: at least one frame
\* was rendered and one more interpolateValues() would change nothing.
Settled == frame > 0 /\ InterpolatedValues(variant, animatedValues) = animatedValues

ScenarioDisplayed ==
  /\ data.channelName = "Test"
  /\ data.subscribers = 100 /\ data.totalViews = 200 /\ data.videos = 3
  /\ data.liveViewers = 0 /\ data.likes = 0

\* C14: in the scenario, once the counters have settled the displayed state is
\* channelName "Test", subscribers 100, totalViews 200, videos 3, liveViewers
\* 0, likes 0, and before the channel interval has started another refresh
\* exactly one avatar load was attempted.
C14_Scenario ==
  Settled => /\ ScenarioDisplayed
             /\ chanFetches = 0 => avatarLoads = 1

\* C14's case: the first fetches are done, no interval refresh has started,
\* frames were rendered and the counters have settled on the targets.
C14_Witness ==
  /\ Settled /\ chanFetches = 0 /\ streamFetches = 0
  /\ lastRefresh = [channel |-> "ok", stream |-> "failed"]
  /\ data.subscribers = 100 /\ data.totalViews = 200 /\ avatarLoads = 1

\* A step in which the push scripts' render() executes.
RenderStep == \E fault \in Faults : Render(fault)

\* C16: under push cadence a render executes only when at least 1000/fps - 2
\* ms have passed on the clock since the previous executed render (or since
\* startAnimation read the clock).
C16_RenderThrottled ==
  [][RenderStep => Fps * deltaTime >= 1000 - (Fps * ToleranceMs)]_vars

\* C16's case: a render has executed, time has passed since, the loop is still
\* scheduled and the next frame is not yet due.
C16_Witness ==
  /\ variant = "push" /\ frame > 0 /\ renderLoop /\ isRunning
  /\ deltaTime > 0 /\ Fps * deltaTime < 1000 - (Fps * ToleranceMs)

\* (num / 10^k) with one decimal digit, the further digits cut off.
Truncated1(ds, k) ==
  SubSeq(ds, 1, Len(ds) - k) \o <<".">> \o <<ds[Len(ds) - k + 1]>>

\* C15: formatNumber(n) is n itself below 1000, and otherwise n divided by the
\* power of ten of its rung, with exactly one decimal digit obtained by
\* truncating the further digits, and the rung's suffix.
C15_FormatTruncates ==
  formatCall.done =>
    formatCall.text =
      (LET ds == formatCall.num
           rung == FormatRung(ds)
       IN IF rung.k = 0 THEN ds ELSE Truncated1(ds, rung.k) \o <<rung.suffix>>)

\* C17: a fault that no callback catches triggers stop(): isRunning is
\* cleared and a running encoder is signalled (end of input or SIGTERM).
C17_FaultTriggersStop ==
  [][UncaughtException =>
       /\ ~isRunning'
       /\ ffmpeg.state = "running" => (stdin'.ended \/ ffmpeg'.sigterm)]_vars

\* C18: when the first tick runs (no frame rendered before it), every one of
\* the five counter keys has an entry in animatedValues.
C18_EntriesAtFirstTick ==
  [][(frame = 0 /\ TickStep) => \A k \in Keys : Tracked(k)]_vars

\* A step in which render() reaches stdin.write(buffer).
WriteStep == RenderStep /\ ffmpeg.state # "none" /\ ~stdin.destroyed

\* C19: under push cadence, once stdin.end() has been called no render
\* reaches stdin.write, whichever way stop() was called.
C19_NoWriteAfterEnd == [][stdin.ended => ~WriteStep]_vars

\* C19's case: stop() has ended the input of a running encoder while the
\* setImmediate chain is still scheduled and a frame is due.
C19_Witness ==
  /\ variant = "push" /\ stdin.ended /\ ~stdin.destroyed /\ ffmpeg.state = "running"
  /\ renderLoop /\ FrameDue(deltaTime) /\ frame > 0

\* C20: under poll cadence, when the encoder subprocess was started a render
\* tick of this process had already written the frame image.
C20_FrameBeforeEncoder ==
  (variant = "poll" /\ ffmpeg.state # "none") => ffmpeg.frameAtSpawn > 0

====
